---- MODULE Spec2Model ----
(***************************************************************************)
(* Model of src/main_2.py: one /media-stream session (handle_media_stream) *)
(* bridging a Twilio media stream and an OpenAI realtime connection, plus  *)
(* the HTTP handlers that maintain the active_calls registry.              *)
(*                                                                         *)
(* Optional Python values (None / a value) are modelled as sequences of    *)
(* length 0 or 1: None == <<>>, Some(x) == <<x>>.                          *)
(* Every await inside the outbound relay that is followed by more code of  *)
(* the same handler is a separate step, so that the inbound relay can run  *)
(* in between, as the asyncio scheduler allows.                            *)
(***************************************************************************)
EXTENDS Integers, Sequences, FiniteSets, TLC

\* ---- bounds of the model ----
MaxQueue == 2
MaxConns == 1
MaxSpurious == 1
MaxUnacked == 2

\* ---- input alphabets ----
StreamSids == {"SD1", "SD2"}
CallSids == {"CA1"}
ItemIds == {"item1", "item2"}
Timestamps == {100, 650}
TerminalStatuses == {"completed", "failed", "busy", "no-answer", "canceled"}
CallStatuses == {"completed", "busy", "ringing"}
OtherTwilioEvents == {"connected", "stop"}

None == <<>>
Some(x) == <<x>>
Val(o) == o[1]

ConnIds == 1..MaxConns
Unbound == 0
NoMsg == [type |-> "none"]

VARIABLES
    \* locals of handle_media_stream shared by the two relays
    stream_sid, latest_media_timestamp, last_assistant_item, mark_queue,
    response_start_timestamp_twilio, openai_ws,
    \* module state and connections
    active_calls, connState, twilioState,
    \* control state
    \* (cur_item and audio_delta: item_id of the delta being handled and
    \* streamSid of its media message, lines 216-231)
    hmsPc, recvPc, sendPc, cur_item, audio_delta,
    \* observation of the last step: operation, its input, messages it sent
    lastOp, sentAi, sentTw,
    \* history
    sessionUpdates, earlyAppend, firstKind, speechNoDelta, interrupted,
    clean, balance, absorbed,
    \* marks sent by send_mark and not yet acknowledged by a mark event
    unacked

sessVars == <<stream_sid, latest_media_timestamp, last_assistant_item,
              mark_queue, response_start_timestamp_twilio>>
connVars == <<active_calls, connState, sessionUpdates, earlyAppend>>
pcVars == <<hmsPc, recvPc, sendPc, cur_item, audio_delta>>
obsVars == <<lastOp, sentAi, sentTw>>
histVars == <<firstKind, speechNoDelta, interrupted, clean, balance, absorbed,
              unacked>>
vars == <<sessVars, openai_ws, connVars, twilioState, pcVars, obsVars, histVars>>

\* the last step: its operation, and the streamSid / call sid / event kind
\* (str) or the media timestamp (ts) of its input when it has one
Op(name) == [op |-> name, str |-> "", ts |-> 0, aux |-> ""]
OpStr(name, str) == [op |-> name, str |-> str, ts |-> 0, aux |-> ""]
OpTs(name, ts) == [op |-> name, str |-> "", ts |-> ts, aux |-> ""]
\* aux: the CallStatus of a status callback, the callSid of a start event
OpAux(name, str, aux) == [op |-> name, str |-> str, ts |-> 0, aux |-> aux]

Init ==
    /\ stream_sid = None
    /\ latest_media_timestamp = 0
    /\ last_assistant_item = None
    /\ mark_queue = <<>>
    /\ response_start_timestamp_twilio = None
    /\ openai_ws = Unbound
    /\ active_calls = [c \in CallSids |-> Unbound]
    /\ connState = [c \in ConnIds |-> "unused"]
    /\ twilioState = "open"
    /\ hmsPc = "first"
    /\ recvPc = "idle"
    /\ sendPc = "idle"
    /\ cur_item = None
    /\ audio_delta = None
    /\ lastOp = Op("Init")
    /\ sentAi = NoMsg
    /\ sentTw = NoMsg
    /\ sessionUpdates = [c \in ConnIds |-> 0]
    /\ earlyAppend = [c \in ConnIds |-> FALSE]
    /\ firstKind = ""
    /\ speechNoDelta = FALSE
    /\ interrupted = FALSE
    /\ clean = TRUE
    /\ balance = 0
    /\ absorbed = 0
    /\ unacked = 0

\* ---- the AI connection ----
IsOpen(c) == c # Unbound /\ connState[c] = "open"
FreeConns == {c \in ConnIds : connState[c] = "unused"}
NewConn == CHOOSE c \in FreeConns : \A d \in FreeConns : c <= d

\* initialize_session that never sends its session.update
initialize_session_m(c) == sessionUpdates

\* initialize_session: one session.update sent on connection c
initialize_session(c) == [sessionUpdates EXCEPT ![c] = @ + 1]

\* ---- HTTP handlers ----
\* make_outbound_call: connect, initialize the session, create the call,
\* register it.  created = FALSE is twilio_client.calls.create raising.
\* The session reads the registry only when its start event arrives
\* (line 159): calls placed after that belong to other sessions and are
\* left out.
make_outbound_call(call_sid, created) ==
    /\ hmsPc = "first"
    /\ FreeConns # {}
    /\ active_calls[call_sid] = Unbound
    /\ connState' = [connState EXCEPT ![NewConn] = "open"]
    /\ sessionUpdates' = initialize_session(NewConn)
    /\ active_calls' = IF created THEN [active_calls EXCEPT ![call_sid] = NewConn]
                       ELSE active_calls
    /\ lastOp' = OpStr("make_outbound_call", call_sid)
    /\ sentAi' = [type |-> "session.update", conn |-> NewConn]
    /\ sentTw' = NoMsg
    /\ UNCHANGED <<sessVars, openai_ws, earlyAppend, twilioState, pcVars, histVars>>

\* a status callback that closes the connection but keeps the entry
call_status_callback_m(call_sid, call_status) ==
    /\ IF active_calls[call_sid] # Unbound /\ call_status \in TerminalStatuses
       THEN /\ connState' = [connState EXCEPT ![active_calls[call_sid]] = "closed"]
            /\ UNCHANGED active_calls
       ELSE UNCHANGED <<connState, active_calls>>
    /\ lastOp' = OpAux("call_status_callback", call_sid, call_status)
    /\ sentAi' = NoMsg
    /\ sentTw' = NoMsg
    /\ UNCHANGED <<sessVars, openai_ws, sessionUpdates, earlyAppend, twilioState,
                   pcVars, histVars>>

\* lines 121-138; the try/except of lines 131-135 lets line 136 run even
\* when close() raises
call_status_callback(call_sid, call_status) ==
    /\ IF active_calls[call_sid] # Unbound /\ call_status \in TerminalStatuses
       THEN /\ connState' = [connState EXCEPT ![active_calls[call_sid]] = "closed"]
            /\ active_calls' = [active_calls EXCEPT ![call_sid] = Unbound]
       ELSE UNCHANGED <<connState, active_calls>>
    /\ lastOp' = OpAux("call_status_callback", call_sid, call_status)
    /\ sentAi' = NoMsg
    /\ sentTw' = NoMsg
    /\ UNCHANGED <<sessVars, openai_ws, sessionUpdates, earlyAppend, twilioState,
                   pcVars, histVars>>

\* ---- handle_media_stream: the first message (lines 153-171) ----
StartRelays ==
    /\ hmsPc' = "relays"
    /\ recvPc' = "loop"
    /\ sendPc' = "wait"
    /\ UNCHANGED <<cur_item, audio_delta>>

\* first message is a start event; ok = FALSE is websockets.connect raising
FirstStart(sid, call_sid, ok) ==
    /\ hmsPc = "first"
    /\ twilioState = "open"
    /\ stream_sid' = Some(sid)
    /\ lastOp' = OpAux("FirstStart", sid, IF call_sid = None THEN "" ELSE Val(call_sid))
    /\ sentTw' = NoMsg
    /\ IF call_sid # None /\ active_calls[Val(call_sid)] # Unbound
       THEN /\ openai_ws' = active_calls[Val(call_sid)]
            /\ sentAi' = NoMsg
            /\ StartRelays
            /\ UNCHANGED <<connState, sessionUpdates>>
       ELSE IF ok /\ FreeConns # {}
       THEN /\ openai_ws' = NewConn
            /\ connState' = [connState EXCEPT ![NewConn] = "open"]
            /\ sessionUpdates' = initialize_session(NewConn)
            /\ sentAi' = [type |-> "session.update", conn |-> NewConn]
            /\ StartRelays
       ELSE /\ hmsPc' = "raised"
            /\ sentAi' = NoMsg
            /\ UNCHANGED <<openai_ws, connState, sessionUpdates, recvPc, sendPc, cur_item, audio_delta>>
    /\ firstKind' = "start"
    /\ UNCHANGED <<latest_media_timestamp, last_assistant_item, mark_queue,
                   response_start_timestamp_twilio, active_calls, earlyAppend,
                   twilioState, speechNoDelta, interrupted, clean, balance, absorbed, unacked>>

\* first message is any other event: openai_ws is never assigned
FirstOther(kind) ==
    /\ hmsPc = "first"
    /\ twilioState = "open"
    /\ StartRelays
    /\ lastOp' = OpStr("FirstOther", kind)
    /\ sentAi' = NoMsg
    /\ sentTw' = NoMsg
    /\ firstKind' = kind
    /\ UNCHANGED <<sessVars, openai_ws, connVars, twilioState,
                   speechNoDelta, interrupted, clean, balance, absorbed, unacked>>

\* first message has no "event" key (KeyError), or the peer disconnects
\* (WebSocketDisconnect, whose handler reads the unassigned openai_ws):
\* either way an exception leaves handle_media_stream
FirstFails(disconnect) ==
    /\ hmsPc = "first"
    /\ twilioState = "open"
    /\ hmsPc' = "raised"
    /\ twilioState' = IF disconnect THEN "closed" ELSE twilioState
    /\ lastOp' = Op("FirstFails")
    /\ sentAi' = NoMsg
    /\ sentTw' = NoMsg
    /\ firstKind' = IF disconnect THEN "disconnect" ELSE "malformed"
    /\ UNCHANGED <<sessVars, openai_ws, connVars, recvPc, sendPc, cur_item, audio_delta,
                   speechNoDelta, interrupted, clean, balance, absorbed, unacked>>

\* ---- receive_from_twilio (lines 173-198) ----
\* gather re-raises the first exception of a relay in handle_media_stream,
\* whose only handler is for WebSocketDisconnect
RelayRaises ==
    /\ recvPc' = "raised"
    /\ hmsPc' = "raised"
    /\ UNCHANGED <<sendPc, cur_item, audio_delta>>

\* a media handler without the openai_ws.open guard: the send on a
\* connection that is not open raises out of the relay
RecvMedia_m(ts) ==
    /\ recvPc = "loop"
    /\ twilioState = "open"
    /\ lastOp' = OpTs("RecvMedia", ts)
    /\ sentTw' = NoMsg
    /\ IF IsOpen(openai_ws)
       THEN /\ latest_media_timestamp' = ts
            /\ sentAi' = [type |-> "input_audio_buffer.append", conn |-> openai_ws]
            /\ earlyAppend' = [earlyAppend EXCEPT
                                 ![openai_ws] = @ \/ sessionUpdates[openai_ws] = 0]
            /\ UNCHANGED pcVars
       ELSE /\ RelayRaises
            /\ sentAi' = NoMsg
            /\ UNCHANGED <<latest_media_timestamp, earlyAppend>>
    /\ UNCHANGED <<stream_sid, last_assistant_item, mark_queue,
                   response_start_timestamp_twilio, openai_ws, active_calls,
                   connState, sessionUpdates, twilioState, firstKind,
                   speechNoDelta, interrupted, clean, balance, absorbed,
                   unacked>>

\* a media event: the guard reads openai_ws.open (NameError when openai_ws
\* was never assigned); when the connection is not open no branch matches
RecvMedia(ts) ==
    /\ recvPc = "loop"
    /\ twilioState = "open"
    /\ lastOp' = OpTs("RecvMedia", ts)
    /\ sentTw' = NoMsg
    /\ IF openai_ws = Unbound
       THEN /\ RelayRaises
            /\ sentAi' = NoMsg
            /\ UNCHANGED <<latest_media_timestamp, earlyAppend>>
       ELSE IF IsOpen(openai_ws)
       THEN /\ latest_media_timestamp' = ts
            /\ sentAi' = [type |-> "input_audio_buffer.append", conn |-> openai_ws]
            /\ earlyAppend' = [earlyAppend EXCEPT
                                 ![openai_ws] = @ \/ sessionUpdates[openai_ws] = 0]
            /\ UNCHANGED pcVars
       ELSE /\ sentAi' = NoMsg
            /\ UNCHANGED <<latest_media_timestamp, earlyAppend, pcVars>>
    /\ UNCHANGED <<stream_sid, last_assistant_item, mark_queue,
                   response_start_timestamp_twilio, openai_ws, active_calls,
                   connState, sessionUpdates, twilioState, firstKind,
                   speechNoDelta, interrupted, clean, balance, absorbed,
                   unacked>>

\* a start event inside the relay: only stream_sid and
\* latest_media_timestamp are declared nonlocal (line 175), so the
\* assignments of lines 189 and 191 bind locals of receive_from_twilio;
\* mark_queue is not touched
RecvStart(sid) ==
    /\ recvPc = "loop"
    /\ twilioState = "open"
    /\ stream_sid' = Some(sid)
    /\ latest_media_timestamp' = 0
    /\ UNCHANGED <<last_assistant_item, mark_queue, response_start_timestamp_twilio>>
    /\ lastOp' = OpStr("RecvStart", sid)
    /\ sentAi' = NoMsg
    /\ sentTw' = NoMsg
    /\ clean' = FALSE
    /\ balance' = 0
    /\ absorbed' = 0
    /\ UNCHANGED <<openai_ws, connVars, twilioState, pcVars,
                   firstKind, speechNoDelta, interrupted, unacked>>

\* a mark handler that empties the queue instead of popping one token
RecvMark_m ==
    /\ recvPc = "loop"
    /\ twilioState = "open"
    /\ mark_queue # <<>> \/ ~clean \/ absorbed < MaxSpurious
    /\ mark_queue' = <<>>
    /\ lastOp' = Op("RecvMark")
    /\ sentAi' = NoMsg
    /\ sentTw' = NoMsg
    /\ balance' = IF clean THEN balance - 1 ELSE balance
    /\ absorbed' = IF clean /\ mark_queue = <<>> THEN absorbed + 1 ELSE absorbed
    /\ unacked' = IF unacked > 0 THEN unacked - 1 ELSE unacked
    /\ UNCHANGED <<stream_sid, latest_media_timestamp, last_assistant_item,
                   response_start_timestamp_twilio, openai_ws, connVars,
                   twilioState, pcVars, firstKind, speechNoDelta, interrupted, clean>>

\* a mark acknowledgment: pop the oldest token if there is one
RecvMark ==
    /\ recvPc = "loop"
    /\ twilioState = "open"
    /\ mark_queue # <<>> \/ ~clean \/ absorbed < MaxSpurious
    /\ mark_queue' = IF mark_queue # <<>> THEN Tail(mark_queue) ELSE mark_queue
    /\ lastOp' = Op("RecvMark")
    /\ sentAi' = NoMsg
    /\ sentTw' = NoMsg
    /\ balance' = IF clean THEN balance - 1 ELSE balance
    /\ absorbed' = IF clean /\ mark_queue = <<>> THEN absorbed + 1 ELSE absorbed
    /\ unacked' = IF unacked > 0 THEN unacked - 1 ELSE unacked
    /\ UNCHANGED <<stream_sid, latest_media_timestamp, last_assistant_item,
                   response_start_timestamp_twilio, openai_ws, connVars,
                   twilioState, pcVars, firstKind, speechNoDelta, interrupted, clean>>

\* any other event kind ("connected", "stop"): no branch matches
RecvOther(kind) ==
    /\ recvPc = "loop"
    /\ twilioState = "open"
    /\ lastOp' = OpStr("RecvOther", kind)
    /\ sentAi' = NoMsg
    /\ sentTw' = NoMsg
    /\ UNCHANGED <<sessVars, openai_ws, connVars, twilioState, pcVars, histVars>>

\* text that json.loads rejects, or a message without "event",
\* "media"/"timestamp" or "start"/"streamSid": ValueError or KeyError
RecvMalformed ==
    /\ recvPc = "loop"
    /\ twilioState = "open"
    /\ RelayRaises
    /\ lastOp' = Op("RecvMalformed")
    /\ sentAi' = NoMsg
    /\ sentTw' = NoMsg
    /\ UNCHANGED <<sessVars, openai_ws, connVars, twilioState, histVars>>

\* the telephony peer closes its connection
TwilioDisconnect ==
    /\ hmsPc # "first"
    /\ twilioState = "open"
    /\ twilioState' = "closed"
    /\ lastOp' = Op("TwilioDisconnect")
    /\ sentAi' = NoMsg
    /\ sentTw' = NoMsg
    /\ UNCHANGED <<sessVars, openai_ws, connVars, pcVars, histVars>>

\* the relay observes the disconnect.  websocket.iter_text() (Starlette)
\* catches WebSocketDisconnect itself and ends the iteration, so the
\* async for of line 177 finishes normally (surfaced = FALSE) and the
\* handler of lines 195-198 does not run.  surfaced = TRUE is a
\* WebSocketDisconnect reaching that handler.
RecvLoopEnd(surfaced) ==
    /\ recvPc = "loop"
    /\ twilioState = "closed"
    /\ lastOp' = Op("RecvLoopEnd")
    /\ sentAi' = NoMsg
    /\ sentTw' = NoMsg
    /\ IF ~surfaced
       THEN /\ recvPc' = "done"
            /\ UNCHANGED <<connState, hmsPc, sendPc, cur_item, audio_delta>>
       ELSE IF openai_ws = Unbound
       THEN /\ RelayRaises
            /\ UNCHANGED connState
       ELSE /\ recvPc' = "done"
            /\ connState' = IF IsOpen(openai_ws)
                            THEN [connState EXCEPT ![openai_ws] = "closed"]
                            ELSE connState
            /\ UNCHANGED <<hmsPc, sendPc, cur_item, audio_delta>>
    /\ UNCHANGED <<sessVars, openai_ws, active_calls, sessionUpdates, earlyAppend,
                   twilioState, histVars>>

\* ---- send_to_twilio (lines 200-243) ----
\* async for over an openai_ws that was never assigned: the NameError is
\* caught by the except Exception of line 242
SendUnbound ==
    /\ sendPc = "wait"
    /\ openai_ws = Unbound
    /\ sendPc' = "done"
    /\ lastOp' = Op("SendUnbound")
    /\ sentAi' = NoMsg
    /\ sentTw' = NoMsg
    /\ UNCHANGED <<sessVars, openai_ws, connVars, twilioState, hmsPc, recvPc,
                   cur_item, audio_delta, histVars>>

\* response.audio.delta, up to the await of websocket.send_json (line 221);
\* sending on a closed telephony connection raises and ends the relay
AiDelta(item) ==
    /\ sendPc = "wait"
    /\ IsOpen(openai_ws)
    /\ Len(mark_queue) < MaxQueue
    /\ unacked < MaxUnacked
    /\ lastOp' = Op("AiDelta")
    /\ sentAi' = NoMsg
    /\ speechNoDelta' = FALSE
    /\ interrupted' = FALSE
    /\ IF twilioState = "open"
       THEN /\ sentTw' = [type |-> "media", streamSid |-> stream_sid]
            /\ sendPc' = "d1"
            /\ cur_item' = item
            /\ audio_delta' = stream_sid
       ELSE /\ sentTw' = NoMsg
            /\ sendPc' = "done"
            /\ UNCHANGED <<cur_item, audio_delta>>
    /\ UNCHANGED <<sessVars, openai_ws, connVars, twilioState, hmsPc, recvPc,
                   firstKind, clean, balance, absorbed, unacked>>

\* lines 223-233 and send_mark up to the await of line 283
DeltaMark ==
    /\ sendPc = "d1"
    /\ response_start_timestamp_twilio' =
           IF response_start_timestamp_twilio = None
           THEN Some(latest_media_timestamp)
           ELSE response_start_timestamp_twilio
    /\ last_assistant_item' = IF cur_item # None THEN cur_item ELSE last_assistant_item
    /\ cur_item' = None
    /\ audio_delta' = None
    /\ lastOp' = Op("DeltaMark")
    /\ sentAi' = NoMsg
    /\ IF stream_sid = None
       THEN /\ sentTw' = NoMsg
            /\ sendPc' = "wait"
       ELSE IF twilioState = "open"
       THEN /\ sentTw' = [type |-> "mark", streamSid |-> stream_sid]
            /\ sendPc' = "d2"
       ELSE /\ sentTw' = NoMsg
            /\ sendPc' = "done"
    /\ UNCHANGED <<stream_sid, latest_media_timestamp, mark_queue, openai_ws,
                   connVars, twilioState, hmsPc, recvPc, histVars>>

\* send_mark, line 284
DeltaAppend ==
    /\ sendPc = "d2"
    /\ mark_queue' = Append(mark_queue, "responsePart")
    /\ sendPc' = "wait"
    /\ lastOp' = Op("DeltaAppend")
    /\ sentAi' = NoMsg
    /\ sentTw' = NoMsg
    /\ balance' = IF clean THEN balance + 1 ELSE balance
    /\ unacked' = unacked + 1
    /\ UNCHANGED <<stream_sid, latest_media_timestamp, last_assistant_item,
                   response_start_timestamp_twilio, openai_ws, connVars,
                   twilioState, hmsPc, recvPc, cur_item, audio_delta,
                   firstKind, speechNoDelta, interrupted, clean, absorbed>>

\* an offset that forgets to subtract the response start
elapsed_time_m(latest, start) == latest

\* line 250
elapsed_time(latest, start) == latest - start

\* guards that do not look at mark_queue
ShouldInterrupt_m ==
    /\ last_assistant_item # None
    /\ response_start_timestamp_twilio # None

\* the guards of lines 237 and 249
ShouldInterrupt ==
    /\ last_assistant_item # None
    /\ mark_queue # <<>>
    /\ response_start_timestamp_twilio # None

\* input_audio_buffer.speech_started, and handle_speech_started_event up
\* to the await of openai_ws.send (line 268)
AiSpeechStarted ==
    /\ sendPc = "wait"
    /\ IsOpen(openai_ws)
    /\ lastOp' = Op("AiSpeechStarted")
    /\ sentTw' = NoMsg
    /\ speechNoDelta' = TRUE
    /\ IF ShouldInterrupt
       THEN /\ sentAi' = [type |-> "conversation.item.truncate",
                          conn |-> openai_ws,
                          item_id |-> Val(last_assistant_item),
                          content_index |-> 0,
                          audio_end_ms |->
                              elapsed_time(latest_media_timestamp,
                                           Val(response_start_timestamp_twilio))]
            /\ sendPc' = "s1"
       ELSE /\ sentAi' = NoMsg
            /\ UNCHANGED sendPc
    /\ UNCHANGED <<sessVars, openai_ws, connVars, twilioState, hmsPc, recvPc,
                   cur_item, audio_delta, firstKind, interrupted, clean, balance, absorbed, unacked>>

\* an interruption that goes on to lines 272-274 without sending the clear
SpeechClear_m ==
    /\ sendPc = "s1"
    /\ lastOp' = Op("SpeechClear")
    /\ sentAi' = NoMsg
    /\ sentTw' = NoMsg
    /\ sendPc' = IF twilioState = "open" THEN "s2" ELSE "done"
    /\ UNCHANGED <<sessVars, openai_ws, connVars, twilioState, hmsPc, recvPc,
                   cur_item, audio_delta, histVars>>

\* line 270: the clear message, up to its await
SpeechClear ==
    /\ sendPc = "s1"
    /\ lastOp' = Op("SpeechClear")
    /\ sentAi' = NoMsg
    /\ IF twilioState = "open"
       THEN /\ sentTw' = [type |-> "clear", streamSid |-> stream_sid]
            /\ sendPc' = "s2"
       ELSE /\ sentTw' = NoMsg
            /\ sendPc' = "done"
    /\ UNCHANGED <<sessVars, openai_ws, connVars, twilioState, hmsPc, recvPc,
                   cur_item, audio_delta, histVars>>

\* an interruption that returns to the loop without lines 272-274
SpeechReset_m ==
    /\ sendPc = "s2"
    /\ sendPc' = "wait"
    /\ lastOp' = Op("SpeechReset")
    /\ sentAi' = NoMsg
    /\ sentTw' = NoMsg
    /\ clean' = FALSE
    /\ balance' = 0
    /\ absorbed' = 0
    /\ interrupted' = TRUE
    /\ UNCHANGED <<sessVars, openai_ws, connVars, twilioState, hmsPc, recvPc,
                   cur_item, audio_delta, firstKind, speechNoDelta, unacked>>

\* lines 272-274
SpeechReset ==
    /\ sendPc = "s2"
    /\ mark_queue' = <<>>
    /\ last_assistant_item' = None
    /\ response_start_timestamp_twilio' = None
    /\ sendPc' = "wait"
    /\ lastOp' = Op("SpeechReset")
    /\ sentAi' = NoMsg
    /\ sentTw' = NoMsg
    /\ clean' = FALSE
    /\ balance' = 0
    /\ absorbed' = 0
    /\ interrupted' = TRUE
    /\ UNCHANGED <<stream_sid, latest_media_timestamp, openai_ws, connVars,
                   twilioState, hmsPc, recvPc, cur_item, audio_delta, firstKind, speechNoDelta, unacked>>

\* an event of any other type (session.created, response.done, ...)
AiOther ==
    /\ sendPc = "wait"
    /\ IsOpen(openai_ws)
    /\ lastOp' = Op("AiOther")
    /\ sentAi' = NoMsg
    /\ sentTw' = NoMsg
    /\ UNCHANGED <<sessVars, openai_ws, connVars, twilioState, pcVars, histVars>>

\* a message json.loads rejects, one without "type" (line 206), or a delta
\* that is not base64: the exception is caught at line 242, the relay ends
AiMalformed ==
    /\ sendPc = "wait"
    /\ IsOpen(openai_ws)
    /\ sendPc' = "done"
    /\ lastOp' = Op("AiMalformed")
    /\ sentAi' = NoMsg
    /\ sentTw' = NoMsg
    /\ UNCHANGED <<sessVars, openai_ws, connVars, twilioState, hmsPc, recvPc,
                   cur_item, audio_delta, histVars>>

\* the AI peer closes connection c, or the connection breaks (a connection
\* that neither the session nor the registry holds is out of the program's
\* sight, its closing is not modelled)
AiClose(c) ==
    /\ connState[c] = "open"
    /\ c = openai_ws \/ \E cs \in CallSids : active_calls[cs] = c
    /\ connState' = [connState EXCEPT ![c] = "closed"]
    /\ lastOp' = Op("AiClose")
    /\ sentAi' = NoMsg
    /\ sentTw' = NoMsg
    /\ UNCHANGED <<sessVars, openai_ws, active_calls, sessionUpdates, earlyAppend,
                   twilioState, pcVars, histVars>>

\* the async for of line 204 ends, or raises into line 242, once the
\* connection is closed
SendLoopEnd ==
    /\ sendPc = "wait"
    /\ openai_ws # Unbound
    /\ ~IsOpen(openai_ws)
    /\ sendPc' = "done"
    /\ lastOp' = Op("SendLoopEnd")
    /\ sentAi' = NoMsg
    /\ sentTw' = NoMsg
    /\ UNCHANGED <<sessVars, openai_ws, connVars, twilioState, hmsPc, recvPc,
                   cur_item, audio_delta, histVars>>

\* line 286: gather returns when both relays have returned
GatherDone ==
    /\ hmsPc = "relays"
    /\ recvPc = "done"
    /\ sendPc = "done"
    /\ hmsPc' = "returned"
    /\ lastOp' = Op("GatherDone")
    /\ sentAi' = NoMsg
    /\ sentTw' = NoMsg
    /\ UNCHANGED <<sessVars, openai_ws, connVars, twilioState, recvPc, sendPc,
                   cur_item, audio_delta, histVars>>

\* ---- the system ----
Next ==
    \/ \E cs \in CallSids, created \in BOOLEAN : make_outbound_call(cs, created)
    \/ \E cs \in CallSids, st \in CallStatuses : call_status_callback(cs, st)
    \/ \E sid \in StreamSids, cs \in {None} \cup {Some(c) : c \in CallSids},
          ok \in BOOLEAN : FirstStart(sid, cs, ok)
    \/ \E kind \in OtherTwilioEvents \cup {"media", "mark"} : FirstOther(kind)
    \/ \E d \in BOOLEAN : FirstFails(d)
    \/ \E ts \in Timestamps : RecvMedia(ts)
    \/ \E sid \in StreamSids : RecvStart(sid)
    \/ RecvMark
    \/ \E kind \in OtherTwilioEvents : RecvOther(kind)
    \/ RecvMalformed
    \/ TwilioDisconnect
    \/ \E surfaced \in BOOLEAN : RecvLoopEnd(surfaced)
    \/ SendUnbound
    \/ \E item \in {None} \cup {Some(i) : i \in ItemIds} : AiDelta(item)
    \/ DeltaMark
    \/ DeltaAppend
    \/ AiSpeechStarted
    \/ SpeechClear
    \/ SpeechReset
    \/ AiOther
    \/ AiMalformed
    \/ \E c \in ConnIds : AiClose(c)
    \/ SendLoopEnd
    \/ GatherDone

Spec == Init /\ [][Next]_vars

\* the steps the program takes by itself once their inputs are there; the
\* peers are under no obligation to send or to close
ProgramStep ==
    \/ \E surfaced \in BOOLEAN : RecvLoopEnd(surfaced)
    \/ SendUnbound
    \/ DeltaMark
    \/ DeltaAppend
    \/ SpeechClear
    \/ SpeechReset
    \/ SendLoopEnd
    \/ GatherDone

FairSpec == Spec /\ WF_vars(ProgramStep)

\* the telephony leg's media timestamps count from the start of the stream
\* and do not decrease within it: a frame's timestamp is at least
\* latest_media_timestamp, which a start event sets back to 0
MonotoneNext ==
    Next /\ (lastOp'.op = "RecvMedia" => lastOp'.ts >= latest_media_timestamp)

MonotoneSpec == Init /\ [][MonotoneNext]_vars

TypeOK ==
    /\ Len(mark_queue) <= MaxQueue
    /\ hmsPc \in {"first", "relays", "returned", "raised"}
    /\ recvPc \in {"idle", "loop", "done", "raised"}
    /\ sendPc \in {"idle", "wait", "d1", "d2", "s1", "s2", "done"}

\* ---- claims ----
TelephonySends == {"media", "mark", "clear"}

\* C3 (as claimed): once the telephony connection has closed while the
\* outbound relay waits for the next AI event, the program by itself closes
\* the AI connection and returns from gather, and from the close on nothing
\* is sent to the telephony leg and no input_audio_buffer.append to the AI
C3_DisconnectPropagation ==
    /\ (twilioState = "closed" /\ hmsPc = "relays" /\ sendPc = "wait"
            /\ IsOpen(openai_ws))
         ~> (hmsPc = "returned" /\ ~IsOpen(openai_ws))
    /\ [][twilioState = "closed" =>
             /\ sentTw'.type \notin TelephonySends
             /\ sentAi'.type # "input_audio_buffer.append"]_vars

\* C4 (as claimed): once the AI connection of a running session is closed
\* while the telephony connection is open, handle_media_stream returns
\* without any further step of the telephony peer
C4_AiDisconnectEndsSession ==
    (hmsPc = "relays" /\ openai_ws # Unbound /\ ~IsOpen(openai_ws)
        /\ twilioState = "open")
      ~> (hmsPc = "returned" \/ twilioState = "closed")

\* C1 (as claimed): right after the inbound relay has processed a start
\* event the session is reset: latest_media_timestamp = 0, mark_queue
\* empty, last_assistant_item and response_start_timestamp_twilio unset,
\* stream_sid the streamSid of the event
C1_ResetInvariant ==
    lastOp.op = "RecvStart" =>
        /\ latest_media_timestamp = 0
        /\ mark_queue = <<>>
        /\ last_assistant_item = None
        /\ response_start_timestamp_twilio = None
        /\ stream_sid = Some(lastOp.str)

\* C2: the conversation.item.truncate sent on an interruption goes to the
\* session's AI connection and carries the in-flight item id,
\* content_index 0 and audio_end_ms = latest_media_timestamp -
\* response_start_timestamp_twilio (550 for a response started at 100 and
\* interrupted at 650); the clear that follows carries the current stream_sid
C2_TruncationOffset ==
    /\ sentAi.type = "conversation.item.truncate" =>
          /\ last_assistant_item # None
          /\ response_start_timestamp_twilio # None
          /\ sentAi.conn = openai_ws
          /\ sentAi.item_id = Val(last_assistant_item)
          /\ sentAi.content_index = 0
          /\ sentAi.audio_end_ms =
                 latest_media_timestamp - Val(response_start_timestamp_twilio)
          /\ (latest_media_timestamp = 650
                 /\ response_start_timestamp_twilio = Some(100)
                 => sentAi.audio_end_ms = 550)
    /\ sentTw.type = "clear" =>
          /\ lastOp.op = "SpeechClear"
          /\ sentTw.streamSid = stream_sid

C2_Witness ==
    /\ sentAi.type = "conversation.item.truncate"
    /\ sentAi.item_id = "item1"
    /\ sentAi.audio_end_ms = 550
    /\ stream_sid = Some("SD1")
    /\ response_start_timestamp_twilio = Some(100)
    /\ Len(mark_queue) = 1

\* C5 (as claimed): with no interruption or restart so far, N tokens
\* appended and M acknowledgments processed, M <= N, the queue holds
\* N - M tokens (balance is N - M)
C5_MarkQueueBalance ==
    (clean /\ balance >= 0) => Len(mark_queue) = balance

\* C5 (amended): with no interruption or restart so far, the queue holds
\* N - M tokens plus one for every acknowledgment that arrived while the
\* queue was empty (such an acknowledgment removes nothing); the length is
\* never negative
C5_MarkQueueBalanceAmended ==
    /\ Len(mark_queue) >= 0
    /\ clean => Len(mark_queue) = balance + absorbed
    /\ (clean /\ absorbed = 0) => Len(mark_queue) = balance

C5_Witness ==
    /\ clean
    /\ lastOp.op = "DeltaAppend"
    /\ absorbed = 1
    /\ balance = 0
    /\ Len(mark_queue) = 1

\* C6: a speech-started event processed after another one, with no audio
\* delta in between, sends nothing to either leg, does not start an
\* interruption and leaves the session state as it is
C6_IdempotentInterruption ==
    [][(speechNoDelta /\ sendPc = "wait" /\ lastOp'.op = "AiSpeechStarted") =>
           /\ sentAi' = NoMsg
           /\ sentTw' = NoMsg
           /\ sendPc' = "wait"
           /\ UNCHANGED sessVars]_vars

C6_Witness ==
    /\ interrupted
    /\ speechNoDelta
    /\ lastOp.op = "AiSpeechStarted"
    /\ sendPc = "wait"
    /\ last_assistant_item = None

\* C7 (as claimed): after a malformed telephony event the inbound relay is
\* still in its loop and handle_media_stream has not been left by an
\* exception
C7_MalformedDropped ==
    lastOp.op = "RecvMalformed" => (recvPc = "loop" /\ hmsPc = "relays")

\* C8: every AI connection that exists has had exactly one session.update,
\* a connection that does not exist none, and no
\* input_audio_buffer.append went out on a connection before its
\* session.update
C8_SessionUpdateOnce ==
    \A c \in ConnIds :
        /\ connState[c] # "unused" => sessionUpdates[c] = 1
        /\ connState[c] = "unused" => sessionUpdates[c] = 0
        /\ ~earlyAppend[c]

\* an append sent on a connection taken from the registry
C8_Witness ==
    /\ sentAi.type = "input_audio_buffer.append"
    /\ \E cs \in CallSids : active_calls[cs] = openai_ws
    /\ sessionUpdates[openai_ws] = 1

\* C9 (as claimed): an event of an unrecognized kind on either leg sends
\* nothing and changes no session state, and a session whose first message
\* was such an event has its AI connection once it has handled a start, as
\* a session whose first message is the start has
C9_UnrecognizedIgnored ==
    /\ [][lastOp'.op \in {"FirstOther", "RecvOther", "AiOther"} =>
             /\ sentAi' = NoMsg
             /\ sentTw' = NoMsg
             /\ UNCHANGED sessVars]_vars
    /\ []((firstKind \in OtherTwilioEvents /\ lastOp.op = "RecvStart")
             => openai_ws # Unbound)

\* C10 (as claimed): a stop event ends the inbound relay loop, and the
\* media frame that follows it is not forwarded to the AI connection
C10_StopEndsRelay ==
    /\ []((lastOp.op = "RecvOther" /\ lastOp.str = "stop") => recvPc = "done")
    /\ [][(lastOp.op = "RecvOther" /\ lastOp.str = "stop")
             => sentAi'.type # "input_audio_buffer.append"]_vars

\* C11: a media frame processed while the session's AI connection is not
\* open sends nothing, changes neither session state nor control state,
\* and leaves the inbound relay in its loop, where start and mark events
\* are still taken
C11_MediaDroppedWhenNotOpen ==
    [][(lastOp'.op = "RecvMedia" /\ openai_ws # Unbound /\ ~IsOpen(openai_ws)) =>
           /\ sentAi' = NoMsg
           /\ sentTw' = NoMsg
           /\ recvPc' = "loop"
           /\ hmsPc' = "relays"
           /\ UNCHANGED <<sessVars, sendPc, connVars>>]_vars

C11_Witness ==
    /\ lastOp.op = "RecvMedia"
    /\ openai_ws # Unbound
    /\ ~IsOpen(openai_ws)
    /\ recvPc = "loop"
    /\ latest_media_timestamp # lastOp.ts

\* C12: while an interruption is between its guard and its reset the
\* outbound relay processes no audio delta, and right after the reset
\* mark_queue, last_assistant_item and response_start_timestamp_twilio are
\* all cleared
C12_InterruptionAtomic ==
    /\ [][(sendPc \in {"s1", "s2"}) =>
             lastOp'.op \notin {"AiDelta", "DeltaMark", "DeltaAppend"}]_vars
    /\ [](lastOp.op = "SpeechReset" =>
             /\ mark_queue = <<>>
             /\ last_assistant_item = None
             /\ response_start_timestamp_twilio = None)

\* an interruption has completed while the inbound relay ran in between
C12_Witness ==
    /\ lastOp.op = "SpeechReset"
    /\ sendPc = "wait"
    /\ mark_queue = <<>>
    /\ latest_media_timestamp = 650
    /\ stream_sid = Some("SD2")

\* C14: a speech-started event processed with last_assistant_item set,
\* mark_queue non-empty and response_start_timestamp_twilio set sends one
\* truncate and nothing else; the next step of the interruption sends one
\* clear with the current stream_sid and still changes no session state;
\* only the step after that clears the three fields
C14_InterruptionSequence ==
    /\ [][(lastOp'.op = "AiSpeechStarted" /\ sendPc = "wait"
              /\ last_assistant_item # None /\ mark_queue # <<>>
              /\ response_start_timestamp_twilio # None) =>
             /\ sentAi'.type = "conversation.item.truncate"
             /\ sentTw' = NoMsg
             /\ sendPc' = "s1"
             /\ UNCHANGED sessVars]_vars
    /\ [][(sendPc = "s1" /\ sendPc' # "s1") =>
             /\ sentAi' = NoMsg
             /\ UNCHANGED sessVars
             /\ \/ sendPc' = "s2" /\ sentTw' = [type |-> "clear", streamSid |-> stream_sid]
                \/ sendPc' = "done" /\ sentTw' = NoMsg /\ twilioState = "closed"]_vars
    /\ [][(sendPc = "s2" /\ sendPc' # "s2") =>
             /\ sendPc' = "wait"
             /\ sentAi' = NoMsg
             /\ sentTw' = NoMsg
             /\ mark_queue' = <<>>
             /\ last_assistant_item' = None
             /\ response_start_timestamp_twilio' = None]_vars
    /\ [][(sentTw'.type = "clear") => sendPc = "s1"]_vars
    /\ [][(sentAi'.type = "conversation.item.truncate") => sendPc' = "s1"]_vars

C14_Witness ==
    /\ lastOp.op = "SpeechClear"
    /\ sendPc = "s2"
    /\ sentTw = [type |-> "clear", streamSid |-> stream_sid]
    /\ last_assistant_item # None
    /\ mark_queue # <<>>
    /\ response_start_timestamp_twilio # None

\* C15: a speech-started event processed while last_assistant_item is
\* unset, or mark_queue is empty, or response_start_timestamp_twilio is
\* unset sends nothing, starts no interruption and changes no session state
C15_TruncationGuard ==
    [][(lastOp'.op = "AiSpeechStarted" /\ sendPc = "wait"
           /\ (\/ last_assistant_item = None
               \/ mark_queue = <<>>
               \/ response_start_timestamp_twilio = None)) =>
          /\ sentAi' = NoMsg
          /\ sentTw' = NoMsg
          /\ sendPc' = "wait"
          /\ UNCHANGED sessVars]_vars

\* speech started with a response item recorded but every mark acknowledged
C15_Witness ==
    /\ lastOp.op = "AiSpeechStarted"
    /\ sendPc = "wait"
    /\ last_assistant_item # None
    /\ response_start_timestamp_twilio # None
    /\ mark_queue = <<>>
    /\ sentAi = NoMsg

\* C16 (as claimed): the first delta of a response (a delta whose item id
\* is not the recorded one) leaves response_start_timestamp_twilio equal
\* to latest_media_timestamp as it is then, and once every mark has been
\* acknowledged and no delta is in progress, so that nothing is playing
\* out, response_start_timestamp_twilio is unset
C16_ResponseStartPerResponse ==
    /\ [][(lastOp'.op = "DeltaMark" /\ sendPc = "d1" /\ cur_item # None
              /\ cur_item # last_assistant_item) =>
             response_start_timestamp_twilio' = Some(latest_media_timestamp)]_vars
    /\ []((lastOp.op = "RecvMark" /\ mark_queue = <<>> /\ sendPc = "wait")
             => response_start_timestamp_twilio = None)

\* C18 (as claimed): after the inbound relay has processed a media frame
\* and is back in its loop, latest_media_timestamp is the frame's timestamp
C18_LatestTimestampLastWrite ==
    (lastOp.op = "RecvMedia" /\ recvPc = "loop") =>
        latest_media_timestamp = lastOp.ts

\* C17 (as claimed): the telephony message that follows a media message is
\* one mark, it carries the streamSid of that media message, and one token
\* is appended to mark_queue for it
C17_MarkFollowsMedia ==
    /\ [][(sendPc = "d1" /\ sentTw'.type \in TelephonySends) =>
             /\ sentTw'.type = "mark"
             /\ sentTw'.streamSid = audio_delta]_vars
    /\ [][(sendPc = "d2" /\ sendPc' # "d2") =>
             /\ mark_queue' = Append(mark_queue, "responsePart")
             /\ sendPc' = "wait"]_vars
    /\ [][(sentTw'.type = "media") => sendPc' = "d1"]_vars

\* C19 (as claimed): with media timestamps that do not decrease within a
\* stream (MonotoneSpec), every conversation.item.truncate sent has
\* audio_end_ms >= 0
C19_TruncationNonNegative ==
    sentAi.type = "conversation.item.truncate" => sentAi.audio_end_ms >= 0

\* C13 (as claimed): the length of mark_queue is the number of marks sent
\* that have not been acknowledged (between the send of a mark and the
\* append of its token the chunk does not count yet)
C13_QueueCountsUnacked ==
    Len(mark_queue) = unacked

\* C20: a status callback with a terminal status for a registered call
\* closes that call's AI connection and removes the entry; any other
\* callback leaves the registry and the connections unchanged; a first
\* start event whose callSid is registered binds the session to exactly
\* the registered connection and opens none, one whose callSid is absent
\* or not registered binds it to a connection that did not exist before
\* (or fails to connect and leaves the handler)
C20_RegistryLifecycle ==
    /\ [][(lastOp'.op = "call_status_callback") =>
             IF active_calls[lastOp'.str] # Unbound
                  /\ lastOp'.aux \in {"completed", "failed", "busy",
                                        "no-answer", "canceled"}
             THEN /\ connState'[active_calls[lastOp'.str]] = "closed"
                  /\ active_calls'[lastOp'.str] = Unbound
                  /\ \A c \in ConnIds : c # active_calls[lastOp'.str] =>
                         connState'[c] = connState[c]
                  /\ \A cs \in CallSids : cs # lastOp'.str =>
                         active_calls'[cs] = active_calls[cs]
             ELSE UNCHANGED <<active_calls, connState>>]_vars
    /\ [][(lastOp'.op = "FirstStart") =>
             IF lastOp'.aux \in CallSids /\ active_calls[lastOp'.aux] # Unbound
             THEN /\ openai_ws' = active_calls[lastOp'.aux]
                  /\ hmsPc' = "relays"
                  /\ UNCHANGED <<active_calls, connState, sessionUpdates>>
             ELSE \/ /\ hmsPc' = "relays"
                     /\ openai_ws' \in ConnIds
                     /\ connState[openai_ws'] = "unused"
                     /\ connState'[openai_ws'] = "open"
                     /\ \A cs \in CallSids : active_calls[cs] # openai_ws'
                     /\ UNCHANGED active_calls
                  \/ /\ hmsPc' = "raised"
                     /\ UNCHANGED <<openai_ws, active_calls, connState>>]_vars

C20_Witness ==
    /\ lastOp.op = "call_status_callback"
    /\ lastOp.aux = "completed"
    /\ active_calls["CA1"] = Unbound
    /\ openai_ws = 1
    /\ connState[1] = "closed"
    /\ hmsPc = "relays"

====
